---- MODULE Spec2Model ----
(***************************************************************************)
(* Hooks of aiftt/reactuse.                                                *)
(*   useDebounceFn      packages/core/src/network/useFetch.ts    622-758   *)
(*   useThrottleFn      packages/core/src/utilities/useThrottle.ts 61-183  *)
(*   createGlobalState  unnamed/part_003                         102-271   *)
(*   useFetch           packages/core/src/network/useFetch.ts    257-540   *)
(*   useInterval        packages/core/src/animation/useInterval.ts 29-100  *)
(*   useCounter         packages/core/src/state/useCounter.ts    36-92     *)
(*   useLocalStorage    unnamed/part_002                         21-116    *)
(* Each has its own variables, actions and specifications; a specification *)
(* of one leaves the variables of the others at their initial values.      *)
(*                                                                         *)
(* The invocation schedulers: one hook instance is modelled.  Its refs are the variables below, the   *)
(* timers the host has scheduled for it are `timerRef`/`strays`, and       *)
(* Date.now() is `now`.  Every handler of the hook (run, flush, cancel,    *)
(* the timer callback, the unmount cleanup) runs to completion in one      *)
(* step, as on the single-threaded event loop.  The wrapped function runs   *)
(* inside that step; when it calls run() or flush() of its own hook, that  *)
(* call is a step of its own, taken before the wrapped function returns.   *)
(***************************************************************************)
EXTENDS Integers, Sequences, FiniteSets, TLC

(* ------------------------------ bounds -------------------------------- *)
\* number of run() calls the environment makes, interleaved with flush/cancel/unmount
MaxCalls == 2
\* number of run() calls the environment makes when it only calls run()
MaxBurst == 3
\* run() is called between Epoch and Epoch + MaxTime
MaxTime == 6
\* the configured window length of the exhaustive specifications
Delay == 3
\* Date.now() when the hook is set up (positive: 0 is the code's "unset")
Epoch == 1
\* how long the two concrete scenarios are followed
ScenarioEnd == 300
\* the wrapped function calls its hook only during its first MaxReenter executions
MaxReenter == 2
\* the values of a global state are 0..MaxValue
MaxValue == 1
\* the components that use global-state hooks are 1..MaxComponents
MaxComponents == 2
\* a key is created at most MaxObjects times
MaxObjects == 2
\* options.retries of useFetch is 0..MaxRetries
MaxRetries == 1
\* options.retryDelay of useFetch
RetryDelay == 2
\* options.timeout of useFetch, when one is given
Timeout == 3
\* how long the requests of useFetch are followed
MaxClock == 5
\* the callback of useInterval is followed for MaxCallbacks invocations
MaxCallbacks == 2
\* the count of useCounter is followed within -MaxCount..MaxCount
MaxCount == 3
\* the values of useLocalStorage are 0..MaxStored
MaxStored == 3
\* number of setValue(prev => f(prev)) calls followed between two renders
MaxUpdates == 2

(* --------------------------- representation --------------------------- *)
\* the keys global states are created with
Keys == {"k1", "k2"}
\* the values a global state takes (plain data, not functions)
Values == 0..MaxValue
\* the components that may call a global-state hook
Components == 1..MaxComponents
\* no setLocalValue is waiting to be applied
NoUpdate == -1
\* a component that is not mounted
Unmounted == [at |-> "unmounted", key |-> "", obj |-> 0, localValue |-> 0, pending |-> NoUpdate]
\* localStorage.getItem(key) is null
NoItem == "null"
\* the number NaN
NaN == 1000
\* an option of useCounter that is undefined
Absent == 2000
\* the numbers useCounter is called with
Numbers == -2..2 \cup {NaN}
\* the min and max options of useCounter, when given
Bounds == {-1, 0, 1}
\* the interval argument of useInterval is null
Null == -1
\* the interval arguments of useInterval: null, 0 and two periods
Intervals == {Null, 0, 1, 2}
\* the calls of execute() of one useFetch instance, in the order they are made
Executions == {1, 2}
\* the error state of useFetch is null
NoError == [name |-> "null", of |-> 0, attempt |-> 0]
\* timerRef.current === null
NoTimer == -1
\* a call of execute() that has not been made yet
NotStarted ==
  [at |-> "unused", throwOnFailed |-> FALSE, signalAborted |-> FALSE, currentRetries |-> 0,
   lastError |-> NoError, wakeAt |-> NoTimer, attempts |-> << >>, abortCalled |-> FALSE,
   outcome |-> "pending"]
\* timerRef.current still holds the handle of a timer that has run or was cleared
Gone == -2
\* argsRef.current === undefined
NoArgs == 0
\* lastCallTimeRef / lastInvokeTimeRef initial value, also written by cancel
Unset == 0
\* options.maxWait === undefined
NoMaxWait == -1
\* resultRef.current === undefined
Undefined == <<>>
\* what a handler "returned" when the wrapped function threw in it
Thrown == << -1 >>

\* maxWait values of the exhaustive specifications: below and above delay
MaxWaitChoices == {NoMaxWait, Delay - 1, Delay + 1}

VARIABLES
  kind,               \* "debounce" (useDebounceFn) or "throttle" (useThrottleFn)
  delay,              \* options.delay
  leading,            \* options.leading
  trailing,           \* options.trailing
  maxWait,            \* options.maxWait (debounce only)
  reenter,            \* what the wrapped function does in its first executions: "none",
                      \*   or it calls "run" (with the arguments it got) or "flush";
                      \*   or "throw": it throws for the arguments of the odd calls
  now,                \* Date.now()
  mounted,            \* the owning component is mounted
  timerRef,           \* timerRef.current: NoTimer, Gone, or the ms left of the timer it names
  strays,             \* ms left of the scheduled timers whose handle the hook lost, ascending
  lastCallTimeRef,    \* lastCallTimeRef.current
  lastInvokeTimeRef,  \* lastInvokeTimeRef.current
  argsRef,            \* argsRef.current: the id of the run() call whose arguments it holds
  resultRef,          \* resultRef.current
  calls,              \* history: calls[i] is the time of the i-th run() call
  log,                \* history: the invocations of the wrapped function, in order:
                      \*   the call whose arguments it got, when, and the handler that made it
  cancelledUpTo,      \* history: number of run() calls made before the last cancel()
  ret,                \* history: what the latest run() or flush() returned
  inFlight,           \* the executions of the wrapped function that have started and not
                      \*   returned, innermost last: the arguments, the handler that made
                      \*   it, and whether it has called the hook yet
  script              \* scenario specifications: number of scripted calls made

VARIABLES
  globalStates,       \* the Map: for each key 0 (no entry) or the index in `objects` of
                      \*   the GlobalState object the entry holds
  objects,            \* for each key, the GlobalState objects created for it so far:
                      \*   value and listeners (a listener belongs to one component)
  components          \* the components that call such a hook: where they are in their
                      \*   life, the hook's key, the GlobalState object their first
                      \*   render read, localValue, and the setLocalValue not yet applied

schedulerVars ==
  << kind, delay, leading, trailing, maxWait, reenter, now, mounted, timerRef,
     strays, lastCallTimeRef, lastInvokeTimeRef, argsRef, resultRef,
     calls, log, cancelledUpTo, ret, inFlight, script >>

VARIABLES
  retries,            \* options.retries
  timeout,            \* options.timeout, 0 when none is given
  signal,             \* options.signal: "undefined" or "user" (an AbortSignal of the caller)
  clock,              \* the time of the host's timers
  abortControllerRef, \* 0 (null) or the execution whose AbortController it holds
  timeoutRef,         \* 0 (null) or the execution whose timeout timer it holds
  timers,             \* for each execution, when its timeout timer is due (NoTimer: not
                      \*   scheduled, cleared or run)
  executions,         \* for each call of execute(): where the async function is, its
                      \*   locals, whether its controller's signal is aborted, and as
                      \*   history its fetch calls, whether abort() was called while it
                      \*   was in progress, and how its promise settled
  data,               \* the hook's state: 0 (null) or the execution whose response it is
  error,              \*   NoError (null) or an error
  isLoading,
  isFinished,
  aborted

registryVars == << globalStates, objects, components >>

fetchVars ==
  << retries, timeout, signal, clock, abortControllerRef, timeoutRef, timers, executions,
     data, error, isLoading, isFinished, aborted >>

VARIABLES
  interval,           \* the interval argument of the latest render
  immediate,          \* options.immediate
  immediateCallback,  \* options.immediateCallback
  hook,               \* "new" (not rendered yet), "mounted" or "unmounted"
  intervalRef,        \* 0 (null) or the handle of an interval timer
  intervalTimers,     \* the handles of the interval timers the host has scheduled
  isActiveRef,        \* isActiveRef.current
  isActive,           \* the isActive the latest render returned
  callbackRuns,       \* history: number of invocations of the callback
  stoppedBy           \* history: what stopped the interval last, with no resume() or
                      \*   restart() of the mounted hook since: "pause", "null" (the
                      \*   interval became null), "unmount", or "" (nothing)

intervalVars ==
  << interval, immediate, immediateCallback, hook, intervalRef, intervalTimers,
     isActiveRef, isActive, callbackRuns, stoppedBy >>

VARIABLES
  min,                \* options.min, Absent when undefined
  max,                \* options.max, Absent when undefined
  step,               \* options.step
  initialCount,       \* the initialValue argument of useCounter
  count               \* the count state

counterVars == << min, max, step, initialCount, count >>

VARIABLES
  defaultValue,       \* the defaultValue argument
  localStorage,       \* the item stored under key, NoItem when there is none
  storedValue,        \* the storedValue state of the last render
  queued,             \* what setStoredValue was called with since, NoUpdate when not called
  latest,             \* history: the updates so far, each applied to the one before
  updates             \* history: setValue(prev => f(prev)) calls since the last render

storageVars == << defaultValue, localStorage, storedValue, queued, latest, updates >>

vars == << schedulerVars, registryVars, fetchVars, intervalVars, counterVars, storageVars >>

\* what the schedulers leave alone, what the global states leave alone, what useFetch
\* leaves alone, what useInterval leaves alone, what useCounter leaves alone, what
\* useLocalStorage leaves alone
notScheduler == << registryVars, fetchVars, intervalVars, counterVars, storageVars >>

notRegistry == << schedulerVars, fetchVars, intervalVars, counterVars, storageVars >>

notFetch == << schedulerVars, registryVars, intervalVars, counterVars, storageVars >>

notInterval == << schedulerVars, registryVars, fetchVars, counterVars, storageVars >>

notCounter == << schedulerVars, registryVars, fetchVars, intervalVars, storageVars >>

notStorage == << schedulerVars, registryVars, fetchVars, intervalVars, counterVars >>

fetchOptions == << retries, timeout, signal >>

config == << kind, delay, leading, trailing, maxWait, reenter >>

(* ------------------------------ helpers ------------------------------- *)
Min(a, b) == IF a <= b THEN a ELSE b

\* the wrapped function: its result identifies the arguments it was given
fnRef(a) == << a >>

\* A timer handle is opaque: the hook only stores it in timerRef and hands it back
\* to clearTimeout, and every timer of the hook runs the same callback.  A
\* scheduled timer is therefore identified by the time it has left: timerRef holds
\* that time for the timer it names, strays holds it for the timers no ref names.

\* the hook's mutable state as one record, threaded through a handler's code
Cur(handler) ==
  [ by |-> handler, timerRef |-> timerRef, strays |-> strays,
    lastCallTime |-> lastCallTimeRef, lastInvokeTime |-> lastInvokeTimeRef,
    args |-> argsRef, result |-> resultRef, log |-> log, ret |-> Undefined,
    inFlight |-> inFlight ]

\* the state a handler leaves behind
Commit(s) ==
  /\ timerRef' = s.timerRef
  /\ strays' = s.strays
  /\ lastCallTimeRef' = s.lastCallTime
  /\ lastInvokeTimeRef' = s.lastInvokeTime
  /\ argsRef' = s.args
  /\ resultRef' = s.result
  /\ log' = s.log
  /\ inFlight' = s.inFlight

Insert(seq, v) ==
  SelectSeq(seq, LAMBDA x : x <= v) \o << v >> \o SelectSeq(seq, LAMBDA x : x > v)

\* timerRef.current = h: a still scheduled timer the old value named stays scheduled
assign(s, h) ==
  [s EXCEPT !.timerRef = h,
            !.strays = IF s.timerRef >= 0 THEN Insert(@, s.timerRef) ELSE @]

\* timerRef.current = setTimeout(timerExpired, ms); a negative delay counts as 0
setTimeout(s, ms) == assign(s, IF ms < 0 THEN 0 ELSE ms)

\* clearTimeout(timerRef.current): the timer leaves the host's table
clearTimeout(s) == [s EXCEPT !.timerRef = IF @ >= 0 THEN Gone ELSE @]

\* the timers the host has scheduled for this hook
Scheduled == Len(strays) + (IF timerRef >= 0 THEN 1 ELSE 0)

\* some scheduled timer's callback is due
Due == timerRef = 0 \/ (strays # << >> /\ Head(strays) = 0)

(* ----------------- useDebounceFn (network/useFetch.ts) ---------------- *)
\* fnRef.current(...args) is entered: one more execution is in flight
enter(s, a) ==
  [s EXCEPT !.log = Append(@, [arg |-> a, at |-> now, by |-> s.by]),
            !.inFlight = Append(@, [arg |-> a, by |-> s.by, called |-> FALSE])]

\* the innermost execution returns: resultRef.current = <its value>; return it
leave(s) ==
  LET f == s.inFlight[Len(s.inFlight)]
  IN [s EXCEPT !.inFlight = SubSeq(@, 1, Len(@) - 1),
               !.result = fnRef(f.arg),
               !.ret = fnRef(f.arg)]

\* a wrapped function that throws does so for the arguments of the odd calls
Throws(a) == reenter = "throw" /\ a % 2 = 1

\* the innermost execution throws and an earlier result is taken for its value
raiseAsResult(s) ==
  [s EXCEPT !.inFlight = SubSeq(@, 1, Len(@) - 1),
            !.result = Thrown,
            !.ret = Thrown]

\* the innermost execution throws: the assignment to resultRef.current is not made and
\* the exception leaves the handler (invokeFunc is the last thing every handler does)
raise(s) ==
  [s EXCEPT !.inFlight = SubSeq(@, 1, Len(@) - 1),
            !.ret = Thrown]

\* fnRef.current(...args): a wrapped function that does not call the hook returns or
\* throws within the handler's step; one that does stays in flight until it has returned
call(s, a) ==
  CASE reenter = "none" -> leave(enter(s, a))
    [] reenter = "throw" -> IF Throws(a) THEN raise(enter(s, a)) ELSE leave(enter(s, a))
    [] OTHER -> enter(s, a)

\* invokeFunc without argsRef.current = undefined
invokeFuncKeepsArgs(s, time) ==
  call([s EXCEPT !.lastInvokeTime = time], s.args)

\* invokeFunc: takes the pending arguments, stamps lastInvokeTime, calls fn and
\* stores what it returns; every caller returns what invokeFunc returns
invokeFunc(s, time) ==
  call([s EXCEPT !.args = NoArgs, !.lastInvokeTime = time], s.args)

\* leadingEdge whose execution leaves the arguments pending
leadingEdgeKeepsArgs(s, time) ==
  LET s1 == setTimeout([s EXCEPT !.lastInvokeTime = time], delay)
  IN IF leading THEN invokeFuncKeepsArgs(s1, time) ELSE [s1 EXCEPT !.ret = s1.result]

leadingEdge(s, time) ==
  LET s1 == setTimeout([s EXCEPT !.lastInvokeTime = time], delay)
  IN IF leading THEN invokeFunc(s1, time) ELSE [s1 EXCEPT !.ret = s1.result]

\* remainingWait that leaves no time
remainingWaitNone(s, time) == 0

\* remainingWait that re-arms for the whole delay
remainingWaitWholeDelay(s, time) == delay

remainingWait(s, time) ==
  LET timeSinceLastCall == time - s.lastCallTime
      timeSinceLastInvoke == time - s.lastInvokeTime
      timeWaiting == delay - timeSinceLastCall
  IN IF maxWait # NoMaxWait
       THEN Min(timeWaiting, maxWait - timeSinceLastInvoke)
       ELSE timeWaiting

\* shouldInvoke that trusts the clock: no test for a clock that was set back
shouldInvokeMonotonic(s, time) ==
  LET timeSinceLastCall == time - s.lastCallTime
      timeSinceLastInvoke == time - s.lastInvokeTime
  IN \/ s.lastCallTime = Unset
     \/ timeSinceLastCall >= delay
     \/ (maxWait # NoMaxWait /\ timeSinceLastInvoke >= maxWait)

\* shouldInvoke gated on the time since the last invocation, as throttle does
shouldInvokeSinceInvoke(s, time) ==
  LET timeSinceLastCall == time - s.lastCallTime
      timeSinceLastInvoke == time - s.lastInvokeTime
  IN \/ s.lastCallTime = Unset
     \/ timeSinceLastInvoke >= delay
     \/ timeSinceLastCall < 0

shouldInvoke(s, time) ==
  LET timeSinceLastCall == time - s.lastCallTime
      timeSinceLastInvoke == time - s.lastInvokeTime
  IN \/ s.lastCallTime = Unset
     \/ timeSinceLastCall >= delay
     \/ timeSinceLastCall < 0
     \/ (maxWait # NoMaxWait /\ timeSinceLastInvoke >= maxWait)

\* trailingEdge that does not look at argsRef.current
trailingEdgeUnguarded(s, time) ==
  LET s1 == assign(s, NoTimer)
  IN IF trailing
       THEN invokeFunc(s1, time)
       ELSE [s1 EXCEPT !.args = NoArgs, !.ret = s1.result]

trailingEdge(s, time) ==
  LET s1 == assign(s, NoTimer)
  IN IF trailing /\ s1.args # NoArgs
       THEN invokeFunc(s1, time)
       ELSE [s1 EXCEPT !.args = NoArgs, !.ret = s1.result]

timerExpired(s) ==
  LET time == now
  IN IF shouldInvoke(s, time)
       THEN trailingEdge(s, time)
       ELSE LET s1 == setTimeout(s, remainingWait(s, time))
            IN [s1 EXCEPT !.ret = s1.result]

\* cancel without its last line, argsRef.current = undefined
cancelKeepsArgs(s) ==
  LET s1 == IF s.timerRef # NoTimer
              THEN assign(clearTimeout(s), NoTimer)
              ELSE s
  IN [s1 EXCEPT !.lastInvokeTime = Unset, !.lastCallTime = Unset]

\* cancel without lastInvokeTimeRef.current = 0
cancelKeepsInvokeTime(s) ==
  LET s1 == IF s.timerRef # NoTimer
              THEN assign(clearTimeout(s), NoTimer)
              ELSE s
  IN [s1 EXCEPT !.lastCallTime = Unset, !.args = NoArgs]

\* maxTimerRef is never assigned, so its branch of cancel never runs
cancel(s) ==
  LET s1 == IF s.timerRef # NoTimer
              THEN assign(clearTimeout(s), NoTimer)
              ELSE s
  IN [s1 EXCEPT !.lastInvokeTime = Unset, !.lastCallTime = Unset, !.args = NoArgs]

\* flush that starts a window when no timer is held
flushRearms(s) ==
  IF s.timerRef = NoTimer
    THEN LET s1 == setTimeout(s, delay) IN [s1 EXCEPT !.ret = s1.result]
    ELSE trailingEdge(s, now)

flush(s) ==
  IF s.timerRef = NoTimer THEN [s EXCEPT !.ret = s.result] ELSE trailingEdge(s, now)

\* debounced that returns undefined from a call that executes nothing
debouncedForgets(s, a) ==
  LET time == now
      isInvoking == shouldInvoke(s, time)
      s1 == [s EXCEPT !.lastCallTime = time, !.args = a]
      s2 == IF s1.timerRef = NoTimer THEN setTimeout(s1, delay) ELSE s1
  IN IF isInvoking /\ s1.timerRef = NoTimer
       THEN leadingEdge(s1, s1.lastCallTime)
     ELSE IF isInvoking /\ maxWait # NoMaxWait
       THEN invokeFunc(setTimeout(s1, delay), s1.lastCallTime)
     ELSE [s2 EXCEPT !.ret = Undefined]

debounced(s, a) ==
  LET time == now
      isInvoking == shouldInvoke(s, time)
      s1 == [s EXCEPT !.lastCallTime = time, !.args = a]
      s2 == IF s1.timerRef = NoTimer THEN setTimeout(s1, delay) ELSE s1
  IN IF isInvoking /\ s1.timerRef = NoTimer
       THEN leadingEdge(s1, s1.lastCallTime)
     ELSE IF isInvoking /\ maxWait # NoMaxWait
       THEN invokeFunc(setTimeout(s1, delay), s1.lastCallTime)
     ELSE [s2 EXCEPT !.ret = s2.result]

(* --------------- useThrottleFn (utilities/useThrottle.ts) ------------- *)
\* invokeFunc without lastInvokeTimeRef.current = time
invokeFuncNoStamp(s, time) ==
  call([s EXCEPT !.args = NoArgs], s.args)

invokeFuncT(s, time) ==
  call([s EXCEPT !.args = NoArgs, !.lastInvokeTime = time], s.args)

leadingEdgeT(s, time) ==
  LET s1 == setTimeout([s EXCEPT !.lastInvokeTime = time], delay)
  IN IF leading THEN invokeFuncT(s1, time) ELSE [s1 EXCEPT !.ret = s1.result]

remainingWaitT(s, time) ==
  LET timeSinceLastInvoke == time - s.lastInvokeTime
      timeWaiting == delay - timeSinceLastInvoke
  IN timeWaiting

\* shouldInvoke gated on the time since the last call, as debounce does
shouldInvokeSinceCall(s, time) ==
  LET timeSinceLastCall == time - s.lastCallTime
  IN \/ s.lastCallTime = Unset
     \/ timeSinceLastCall >= delay
     \/ timeSinceLastCall < 0

shouldInvokeT(s, time) ==
  LET timeSinceLastCall == time - s.lastCallTime
      timeSinceLastInvoke == time - s.lastInvokeTime
  IN \/ s.lastCallTime = Unset
     \/ timeSinceLastInvoke >= delay
     \/ timeSinceLastCall < 0

\* trailingEdge that drops the pending arguments instead of invoking with them
trailingEdgeDrops(s, time) ==
  LET s1 == assign(s, NoTimer)
  IN [s1 EXCEPT !.args = NoArgs, !.ret = s1.result]

trailingEdgeT(s, time) ==
  LET s1 == assign(s, NoTimer)
  IN IF trailing /\ s1.args # NoArgs
       THEN invokeFuncT(s1, time)
       ELSE [s1 EXCEPT !.args = NoArgs, !.ret = s1.result]

timerExpiredT(s) ==
  LET time == now
  IN IF shouldInvokeT(s, time)
       THEN trailingEdgeT(s, time)
       ELSE LET s1 == setTimeout(s, remainingWaitT(s, time))
            IN [s1 EXCEPT !.ret = s1.result]

cancelT(s) ==
  LET s1 == IF s.timerRef # NoTimer
              THEN assign(clearTimeout(s), NoTimer)
              ELSE s
  IN [s1 EXCEPT !.lastInvokeTime = Unset, !.lastCallTime = Unset, !.args = NoArgs]

flushT(s) ==
  IF s.timerRef = NoTimer THEN [s EXCEPT !.ret = s.result] ELSE trailingEdgeT(s, now)

throttled(s, a) ==
  LET time == now
      isInvoking == shouldInvokeT(s, time)
      s1 == [s EXCEPT !.lastCallTime = time, !.args = a]
      s2 == IF s1.timerRef = NoTimer THEN setTimeout(s1, delay) ELSE s1
  IN IF isInvoking /\ s1.timerRef = NoTimer
       THEN leadingEdgeT(s1, s1.lastCallTime)
       ELSE [s2 EXCEPT !.ret = s2.result]

(* ------------------------------ actions ------------------------------- *)
\* no global state has been created and no component uses one
NoRegistry ==
  /\ globalStates = [k \in Keys |-> 0]
  /\ objects = [k \in Keys |-> << >>]
  /\ components = [c \in Components |-> Unmounted]

\* useFetch as its useState and useRef calls initialise it, execute() not called
FreshFetch ==
  /\ clock = 0
  /\ abortControllerRef = 0
  /\ timeoutRef = 0
  /\ timers = [e \in Executions |-> NoTimer]
  /\ executions = [e \in Executions |-> NotStarted]
  /\ data = 0
  /\ error = NoError
  /\ isLoading = FALSE
  /\ isFinished = FALSE
  /\ aborted = FALSE

\* no useFetch is in use
NoFetch ==
  /\ retries = 0
  /\ timeout = 0
  /\ signal = "undefined"
  /\ FreshFetch

\* useInterval before its first render
FreshInterval ==
  /\ hook = "new"
  /\ intervalRef = 0
  /\ intervalTimers = {}
  /\ isActiveRef = FALSE
  /\ isActive = FALSE
  /\ callbackRuns = 0
  /\ stoppedBy = ""

\* no useInterval is in use
NoInterval ==
  /\ interval = Null
  /\ immediate = TRUE
  /\ immediateCallback = FALSE
  /\ FreshInterval

\* no useCounter is in use
NoCounter ==
  /\ min = Absent
  /\ max = Absent
  /\ step = 1
  /\ initialCount = 0
  /\ count = 0

\* no useLocalStorage is in use
NoStorage ==
  /\ defaultValue = 0
  /\ localStorage = NoItem
  /\ storedValue = 0
  /\ queued = NoUpdate
  /\ latest = 0
  /\ updates = 0

\* the refs as useRef initialises them, before any handler has run
Fresh ==
  /\ now = Epoch
  /\ mounted = TRUE
  /\ timerRef = NoTimer
  /\ strays = << >>
  /\ lastCallTimeRef = Unset
  /\ lastInvokeTimeRef = Unset
  /\ argsRef = NoArgs
  /\ resultRef = Undefined
  /\ calls = << >>
  /\ log = << >>
  /\ cancelledUpTo = 0
  /\ ret = Undefined
  /\ inFlight = << >>
  /\ script = 0

\* the options of the exhaustive specifications
Options ==
  /\ kind \in {"debounce", "throttle"}
  /\ delay = Delay
  /\ leading \in BOOLEAN
  /\ trailing \in BOOLEAN
  /\ maxWait \in (IF kind = "debounce" THEN MaxWaitChoices ELSE {NoMaxWait})

\* a wrapped function that does not call the hook
Init ==
  /\ Options
  /\ reenter = "none"
  /\ Fresh
  /\ NoRegistry
  /\ NoFetch
  /\ NoInterval
  /\ NoCounter
  /\ NoStorage

\* run(...args): the a-th call of the environment, made while mounted
Call(a) ==
  /\ mounted
  /\ LET s == IF kind = "debounce" THEN debounced(Cur("run"), a) ELSE throttled(Cur("run"), a)
     IN Commit(s) /\ ret' = s.ret
  /\ calls' = Append(calls, now)
  /\ UNCHANGED << notScheduler, config, now, mounted, cancelledUpTo >>

RunUpTo(n) ==
  /\ Len(calls) < n
  /\ now <= Epoch + MaxTime
  /\ Call(Len(calls) + 1)
  /\ UNCHANGED script

Run == RunUpTo(MaxCalls)

RunOnly == RunUpTo(MaxBurst)

\* flush()
Flush ==
  /\ LET s == IF kind = "debounce" THEN flush(Cur("flush")) ELSE flushT(Cur("flush"))
     IN Commit(s) /\ ret' = s.ret
  /\ UNCHANGED << notScheduler, config, now, mounted, calls, cancelledUpTo, script >>

\* cancel()
Cancel ==
  /\ Commit(IF kind = "debounce" THEN cancel(Cur("cancel")) ELSE cancelT(Cur("cancel")))
  /\ cancelledUpTo' = Len(calls)
  /\ UNCHANGED << notScheduler, config, now, mounted, calls, ret, script >>

\* the cleanup of useEffect(() => () => cancel(), []) when the owner unmounts
Unmount ==
  /\ mounted
  /\ mounted' = FALSE
  /\ Commit(IF kind = "debounce" THEN cancel(Cur("cancel")) ELSE cancelT(Cur("cancel")))
  /\ cancelledUpTo' = Len(calls)
  /\ UNCHANGED << notScheduler, config, now, calls, ret, script >>

\* the host runs a due timer callback (timerExpired); the timer leaves its table
TimerFire ==
  \E which \in {"held", "stray"} :
    /\ IF which = "held" THEN timerRef = 0 ELSE strays # << >> /\ Head(strays) = 0
    /\ LET c == Cur("timer")
           s == IF which = "held" THEN [c EXCEPT !.timerRef = Gone]
                                  ELSE [c EXCEPT !.strays = Tail(@)]
       IN Commit(IF kind = "debounce" THEN timerExpired(s) ELSE timerExpiredT(s))
    /\ UNCHANGED << notScheduler, config, now, mounted, calls, cancelledUpTo, ret, script >>

Less(n) == IF n > 0 THEN n - 1 ELSE n

\* one millisecond passes
Advance ==
  /\ now' = now + 1
  /\ timerRef' = Less(timerRef)
  /\ strays' = [i \in DOMAIN strays |-> Less(strays[i])]
  /\ UNCHANGED << notScheduler, config, mounted, ret, lastCallTimeRef, lastInvokeTimeRef,
                  argsRef, resultRef, calls, log, cancelledUpTo, inFlight, script >>

\* time passes; a due callback may be run late (setTimeout promises "not before")
Tick ==
  /\ now < Epoch + MaxTime
  /\ Advance

\* past the horizon time only passes until the scheduled callbacks are due
Drain ==
  /\ now >= Epoch + MaxTime
  /\ Scheduled > 0
  /\ ~Due
  /\ Advance

\* time passes only when no callback is due: punctual timers
PunctualTick ==
  /\ now < Epoch + MaxTime \/ Scheduled > 0
  /\ ~Due
  /\ Advance

Next == Run \/ Flush \/ Cancel \/ Unmount \/ TimerFire \/ Tick \/ Drain

\* every sequence of run(), flush(), cancel(), unmount and timer callbacks
Spec == Init /\ [][Next]_vars

NextRun == RunOnly \/ TimerFire \/ Tick \/ Drain

\* run() is the only call made; time passes and a due callback is eventually run
SpecRun ==
  /\ Init
  /\ [][NextRun]_vars
  /\ WF_vars(TimerFire) /\ WF_vars(Tick) /\ WF_vars(Drain)

NextPunctual == RunOnly \/ TimerFire \/ PunctualTick

\* run() is the only call made and every callback runs in the millisecond it is due
SpecPunctual == Init /\ [][NextPunctual]_vars

(* ------------- a wrapped function that calls its own hook ------------- *)
\* the system clock is set back: Date.now() reads earlier, the host's timers keep the
\* time they have left
ClockBack ==
  /\ now > Epoch
  /\ now' = now - 1
  /\ UNCHANGED << notScheduler, config, mounted, timerRef, strays, ret, lastCallTimeRef,
                  lastInvokeTimeRef, argsRef, resultRef, calls, log, cancelledUpTo, inFlight,
                  script >>

\* useDebounceFn on a system clock that can be set back
InitSkew == Init /\ kind = "debounce"

NextSkew == Run \/ TimerFire \/ PunctualTick \/ ClockBack

\* run() is the only call made, every callback runs when it is due, and the clock is
\* not monotonic
SpecSkew == InitSkew /\ [][NextSkew]_vars

\* a wrapped function that throws for some arguments and does not call the hook
InitThrowing ==
  /\ Options
  /\ reenter = "throw"
  /\ Fresh
  /\ NoRegistry
  /\ NoFetch
  /\ NoInterval
  /\ NoCounter
  /\ NoStorage

NextThrowing == RunOnly \/ TimerFire \/ Tick \/ Drain

\* run() is the only call made; time passes and a due callback is eventually run
SpecThrowing ==
  /\ InitThrowing
  /\ [][NextThrowing]_vars
  /\ WF_vars(TimerFire) /\ WF_vars(Tick) /\ WF_vars(Drain)

InitReentrant ==
  /\ Options
  /\ reenter \in {"run", "flush"}
  /\ Fresh
  /\ NoRegistry
  /\ NoFetch
  /\ NoInterval
  /\ NoCounter
  /\ NoStorage

\* the event loop runs a handler only when no execution is in flight
Idle == inFlight = << >>

IdleRun == Idle /\ Run

IdleFlush == Idle /\ Flush

IdleTimerFire == Idle /\ TimerFire

IdleTick == Idle /\ PunctualTick

\* the innermost execution in flight calls run(...args) or flush() of the hook,
\* once, and drops what the call returns
FnCalls ==
  /\ inFlight # << >>
  /\ ~inFlight[Len(inFlight)].called
  /\ Len(log) <= MaxReenter
  /\ LET a == inFlight[Len(inFlight)].arg
         c == [Cur("fn") EXCEPT !.inFlight[Len(inFlight)].called = TRUE]
     IN Commit(CASE reenter = "run" ->
                      IF kind = "debounce" THEN debounced(c, a) ELSE throttled(c, a)
                 [] reenter = "flush" ->
                      IF kind = "debounce" THEN flush(c) ELSE flushT(c))
  /\ UNCHANGED << notScheduler, config, now, mounted, calls, cancelledUpTo, ret, script >>

\* the innermost execution in flight returns to invokeFunc, and invokeFunc to the
\* handler that called it; run() and flush() hand the value on to their caller
FnReturns ==
  /\ inFlight # << >>
  /\ inFlight[Len(inFlight)].called \/ Len(log) > MaxReenter
  /\ Commit(leave(Cur("fn")))
  /\ ret' = IF Len(inFlight) = 1 /\ inFlight[1].by \in {"run", "flush"}
              THEN fnRef(inFlight[1].arg)
              ELSE ret
  /\ UNCHANGED << notScheduler, config, now, mounted, calls, cancelledUpTo, script >>

NextReentrant == IdleRun \/ IdleFlush \/ IdleTimerFire \/ IdleTick \/ FnCalls \/ FnReturns

\* run() and flush() are called by the environment and by the wrapped function;
\* every callback runs in the millisecond it is due
SpecReentrant == InitReentrant /\ [][NextReentrant]_vars

(* ----------------------- the two concrete scenarios ------------------- *)
\* the call times of the debounce scenario, relative to Epoch; call i passes i
DebounceScript == << 0, 30, 60 >>
\* the call times of the throttle scenario
ThrottleScript == << 0, 10, 50, 110 >>

ScriptDue(times) == script < Len(times) /\ now = Epoch + times[script + 1]

Scripted(times) ==
  /\ ScriptDue(times)
  /\ Call(script + 1)
  /\ script' = script + 1

ScriptTick(times) ==
  /\ now < Epoch + ScenarioEnd
  /\ ~ScriptDue(times)
  /\ ~Due
  /\ Advance

InitDebounceScenario ==
  /\ kind = "debounce"
  /\ delay = 100
  /\ leading = FALSE
  /\ trailing = TRUE
  /\ maxWait = NoMaxWait
  /\ reenter = "none"
  /\ Fresh
  /\ NoRegistry
  /\ NoFetch
  /\ NoInterval
  /\ NoCounter
  /\ NoStorage

DebounceCall == Scripted(DebounceScript)

DebounceTick == ScriptTick(DebounceScript)

NextDebounceScenario == DebounceCall \/ TimerFire \/ DebounceTick

SpecDebounceScenario == InitDebounceScenario /\ [][NextDebounceScenario]_vars

InitThrottleScenario ==
  /\ kind = "throttle"
  /\ delay = 100
  /\ leading = TRUE
  /\ trailing = TRUE
  /\ maxWait = NoMaxWait
  /\ reenter = "none"
  /\ Fresh
  /\ NoRegistry
  /\ NoFetch
  /\ NoInterval
  /\ NoCounter
  /\ NoStorage

ThrottleCall == Scripted(ThrottleScript)

ThrottleTick == ScriptTick(ThrottleScript)

NextThrottleScenario == ThrottleCall \/ TimerFire \/ ThrottleTick

SpecThrottleScenario == InitThrottleScenario /\ [][NextThrottleScenario]_vars

(* ------------------ createGlobalState (unnamed/part_003) -------------- *)
\* no scheduler is in use
NoScheduler ==
  /\ kind = "debounce"
  /\ delay = Delay
  /\ leading = FALSE
  /\ trailing = TRUE
  /\ maxWait = NoMaxWait
  /\ reenter = "none"
  /\ Fresh

\* stands for an updater function passed instead of a value:
\* prev => (prev + 1) % (MaxValue + 1)
Increment == MaxValue + 1

\* typeof newValue === 'function' ? newValue(globalState.value) : newValue
nextValue(newValue, value) ==
  IF newValue = Increment THEN (value + 1) % (MaxValue + 1) ELSE newValue

\* a forEach that reaches the components of every key
notifyEveryone(listeners, v) ==
  [c \in Components |->
     IF components[c].at = "mounted" THEN [components[c] EXCEPT !.pending = v]
                                     ELSE components[c]]

\* globalState.listeners.forEach(listener => listener(v)): each listener queues
\* setLocalValue(v) in its component; React applies it at the next render
notify(listeners, v) ==
  [c \in Components |->
     IF c \in listeners THEN [components[c] EXCEPT !.pending = v] ELSE components[c]]

\* globalState.value = v, then the listeners of the object the Map holds for k
assignValue(k, v) ==
  LET g == globalStates[k]
  IN /\ objects' = [objects EXCEPT ![k][g].value = v]
     /\ components' = notify(objects[k][g].listeners, v)

\* getGlobalState(key): globalStates.get(key)?.value
getGlobalState(k) ==
  IF globalStates[k] = 0 THEN Undefined ELSE objects[k][globalStates[k]].value

\* createGlobalState(key, initialValue): makes the entry unless the Map has one,
\* and returns a hook bound to the key (a key that has an entry has a hook)
createGlobalState(k, initialValue) ==
  /\ IF globalStates[k] = 0
       THEN /\ objects' = [objects EXCEPT ![k] =
                              Append(@, [value |-> initialValue, listeners |-> {}])]
            /\ globalStates' = [globalStates EXCEPT ![k] = Len(objects[k]) + 1]
       ELSE UNCHANGED << globalStates, objects >>
  /\ UNCHANGED << components, notRegistry >>

\* the first render of a component that calls the hook of key k:
\* globalState = globalStates.get(key)!; useState(globalState.value).
\* Without an entry globalState.value throws and the component does not mount.
Mount(c, k) ==
  /\ components[c].at = "unmounted"
  /\ globalStates[k] # 0
  /\ components' = [components EXCEPT ![c] =
                      [at |-> "rendered", key |-> k, obj |-> globalStates[k],
                       localValue |-> objects[k][globalStates[k]].value,
                       pending |-> NoUpdate]]
  /\ UNCHANGED << globalStates, objects, notRegistry >>

\* the effect without its "make sure local and global state agree" step
EffectWithoutSync(c) ==
  /\ components[c].at = "rendered"
  /\ objects' = [objects EXCEPT
                   ![components[c].key][components[c].obj].listeners = @ \cup {c}]
  /\ components' = [components EXCEPT ![c].at = "mounted"]
  /\ UNCHANGED << globalStates, notRegistry >>

\* the effect of the first render: subscribes to the object that render read and
\* queues setLocalValue(globalState.value) when that render's localValue differs
Effect(c) ==
  /\ components[c].at = "rendered"
  /\ LET k == components[c].key
         g == components[c].obj
         v == objects[k][g].value
     IN /\ objects' = [objects EXCEPT ![k][g].listeners = @ \cup {c}]
        /\ components' = [components EXCEPT
                            ![c].at = "mounted",
                            ![c].pending = IF components[c].localValue # v THEN v ELSE @]
  /\ UNCHANGED << globalStates, notRegistry >>

\* React renders the component again to apply the queued setLocalValue.  The hook
\* reads globalStates.get(key)!.value in every render: without an entry the render
\* throws a TypeError, React unmounts the component and the effect's cleanup runs
Render(c) ==
  /\ components[c].at = "mounted"
  /\ components[c].pending # NoUpdate
  /\ IF globalStates[components[c].key] = 0
       THEN /\ objects' = [objects EXCEPT
                             ![components[c].key][components[c].obj].listeners = @ \ {c}]
            /\ components' = [components EXCEPT ![c] = Unmounted]
       ELSE /\ components' = [components EXCEPT ![c].localValue = components[c].pending,
                                                 ![c].pending = NoUpdate]
            /\ UNCHANGED objects
  /\ UNCHANGED << globalStates, notRegistry >>

\* the component unmounts: the effect's cleanup deletes its listener
UnmountComponent(c) ==
  /\ components[c].at = "mounted"
  /\ objects' = [objects EXCEPT ![components[c].key][components[c].obj].listeners = @ \ {c}]
  /\ components' = [components EXCEPT ![c] = Unmounted]
  /\ UNCHANGED << globalStates, notRegistry >>

\* setGlobalValue(newValue), the setter the hook returned to component c; it looks
\* the key up again, and globalState.value throws when the Map has no entry
setGlobalValue(c, newValue) ==
  /\ components[c].at # "unmounted"
  /\ LET k == components[c].key
     IN IF globalStates[k] = 0
          THEN UNCHANGED << objects, components >>
          ELSE assignValue(k, nextValue(newValue, getGlobalState(k)))
  /\ UNCHANGED << globalStates, notRegistry >>

\* setGlobalState(key, value); warns and returns when the Map has no entry
setGlobalState(k, value) ==
  /\ IF globalStates[k] = 0
       THEN UNCHANGED << objects, components >>
       ELSE assignValue(k, nextValue(value, getGlobalState(k)))
  /\ UNCHANGED << globalStates, notRegistry >>

\* resetGlobalState(key, initialValue); warns and returns when the Map has no entry
resetGlobalState(k, initialValue) ==
  /\ IF globalStates[k] = 0
       THEN UNCHANGED << objects, components >>
       ELSE assignValue(k, initialValue)
  /\ UNCHANGED << globalStates, notRegistry >>

\* destroyGlobalState(key): globalStates.delete(key)
destroyGlobalState(k) ==
  /\ globalStates' = [globalStates EXCEPT ![k] = 0]
  /\ UNCHANGED << objects, components, notRegistry >>

InitRegistry ==
  NoScheduler /\ NoRegistry /\ NoFetch /\ NoInterval /\ NoCounter /\ NoStorage

\* createGlobalState is called for a key that has an entry or never had one
Create ==
  \E k \in Keys, v \in Values :
    /\ globalStates[k] # 0 \/ objects[k] = << >>
    /\ createGlobalState(k, v)

MountSome == \E c \in Components, k \in Keys : Mount(c, k)

EffectSome == \E c \in Components : Effect(c)

RenderSome == \E c \in Components : Render(c)

UnmountSome == \E c \in Components : UnmountComponent(c)

HookSet == \E c \in Components, x \in Values \cup {Increment} : setGlobalValue(c, x)

SetGlobal == \E k \in Keys, x \in Values \cup {Increment} : setGlobalState(k, x)

ResetGlobal == \E k \in Keys, v \in Values : resetGlobalState(k, v)

Destroy == \E k \in Keys : destroyGlobalState(k)

NextShared ==
  Create \/ MountSome \/ EffectSome \/ RenderSome \/ UnmountSome \/ HookSet
    \/ SetGlobal \/ ResetGlobal

\* global states that are created, used and set, and never destroyed
SpecShared == InitRegistry /\ [][NextShared]_vars

NextRegistry == NextShared \/ Destroy

\* the same with destroyGlobalState; a destroyed key is not created again
SpecRegistry == InitRegistry /\ [][NextRegistry]_vars

\* createGlobalState is called for a key that was destroyed: the Map gets a new object
Recreate ==
  \E k \in Keys, v \in Values :
    /\ globalStates[k] = 0
    /\ objects[k] # << >>
    /\ Len(objects[k]) < MaxObjects
    /\ createGlobalState(k, v)

NextRecreate == NextRegistry \/ Recreate

\* the same, and a destroyed key is created again
SpecRecreate == InitRegistry /\ [][NextRecreate]_vars

(* ---------------- useFetch (network/useFetch.ts 257-540) -------------- *)
(* One hook instance, mounted, without interceptors.  execute() is an      *)
(* async function: a step runs it from one await to the next.  The         *)
(* response of the request of execution e carries the data e.              *)

\* the Error an attempt of an execution ended with
ErrorOf(e, n, name) == [name |-> name, of |-> e, attempt |-> n]

\* requestOptions.signal.aborted: the signal is options.signal when one is given,
\* the signal of the execution's own AbortController otherwise
SignalAborted(e) == signal = "undefined" /\ executions[e].signalAborted

\* await fetch(currentUrl, requestOptions): the call
startAttempt(x) ==
  [x EXCEPT !.at = "fetching",
            !.attempts = Append(@, [at |-> clock, ended |-> NoTimer, result |-> "pending",
                                    afterAbort |-> x.abortCalled])]

\* await fetch(currentUrl, requestOptions): the promise settles
endAttempt(x, result) ==
  [x EXCEPT !.attempts[Len(x.attempts)].ended = clock,
            !.attempts[Len(x.attempts)].result = result]

\* if (timeoutRef.current) { clearTimeout(timeoutRef.current); timeoutRef.current = null }
clearTimeoutRef(t) ==
  /\ timers' = IF timeoutRef # 0 THEN [t EXCEPT ![timeoutRef] = NoTimer] ELSE t
  /\ timeoutRef' = 0

\* abort(), with t the timers when it is called
abort(t) ==
  /\ executions' =
       [e \in Executions |->
          [executions[e] EXCEPT
             !.signalAborted = @ \/ e = abortControllerRef,
             !.abortCalled = @ \/ executions[e].at \in {"fetching", "waiting"}]]
  /\ abortControllerRef' = 0
  /\ aborted' = (aborted \/ abortControllerRef # 0)
  /\ clearTimeoutRef(t)
  /\ UNCHANGED << fetchOptions, clock, data, error, isLoading, isFinished, notFetch >>

\* execute(throwOnFailed) up to its first await, the first fetch
execute(e, throwOnFailed) ==
  /\ executions[e].at = "unused"
  /\ abortControllerRef' = e
  /\ isLoading' = TRUE
  /\ isFinished' = FALSE
  /\ error' = NoError
  /\ aborted' = FALSE
  /\ IF timeout # 0
       THEN /\ timers' = [timers EXCEPT ![e] = clock + timeout]
            /\ timeoutRef' = e
       ELSE UNCHANGED << timers, timeoutRef >>
  /\ executions' =
       [executions EXCEPT
          ![e] = startAttempt([executions[e] EXCEPT !.throwOnFailed = throwOnFailed,
                                                    !.currentRetries = 0])]
  /\ UNCHANGED << fetchOptions, clock, data, notFetch >>

\* a retry wait of no length
retryTimerNow == clock

\* setTimeout(resolve, retryDelay): when the timer of the retry wait is due
retryTimerDue == clock + RetryDelay

\* the response is ok: the success path, to the return
fulfilled(e) ==
  /\ data' = e
  /\ isLoading' = FALSE
  /\ isFinished' = TRUE
  /\ clearTimeoutRef(timers)
  /\ executions' =
       [executions EXCEPT
          ![e] = [endAttempt(executions[e], "ok") EXCEPT !.at = "settled",
                                                         !.outcome = "returned"]]
  /\ UNCHANGED << fetchOptions, clock, error, aborted, abortControllerRef, notFetch >>

\* the attempt threw: the catch of the loop, then either the retry wait or the loop's
\* exit, throw lastError and the failure path to the end of execute
caught(e, name) ==
  LET x == endAttempt(executions[e], name)
      err == ErrorOf(e, Len(x.attempts), name)
      y == [x EXCEPT !.lastError = err, !.currentRetries = @ + 1]
  IN /\ IF y.currentRetries <= retries
          THEN /\ executions' =
                    [executions EXCEPT
                       ![e] = [y EXCEPT !.at = "waiting", !.wakeAt = retryTimerDue]]
               /\ UNCHANGED << data, error, isLoading, isFinished, timers, timeoutRef >>
          ELSE /\ executions' =
                    [executions EXCEPT
                       ![e] = [y EXCEPT !.at = "settled",
                                        !.outcome = IF y.throwOnFailed THEN "rejected"
                                                                       ELSE "resolved"]]
               /\ error' = y.lastError
               /\ isLoading' = FALSE
               /\ isFinished' = TRUE
               /\ clearTimeoutRef(timers)
               /\ UNCHANGED data
     /\ UNCHANGED << fetchOptions, clock, aborted, abortControllerRef, notFetch >>

\* the retry wait is over: the loop's condition holds, fetch is called again
retry(e) ==
  /\ executions' = [executions EXCEPT ![e] = startAttempt([executions[e] EXCEPT !.wakeAt = NoTimer])]
  /\ UNCHANGED << fetchOptions, clock, abortControllerRef, timeoutRef, timers, data, error,
                  isLoading, isFinished, aborted, notFetch >>

\* the options of the hook
InitFetch ==
  /\ NoScheduler
  /\ NoRegistry
  /\ NoInterval
  /\ NoCounter
  /\ NoStorage
  /\ retries \in 0..MaxRetries
  /\ timeout \in {0, Timeout}
  /\ signal \in {"undefined", "user"}
  /\ FreshFetch

\* the execution a call of execute() made now is
NextExecution == 1 + Cardinality({e \in Executions : executions[e].at # "unused"})

InProgress(e) == executions[e].at \in {"fetching", "waiting"}

\* execute() is called while no earlier call is in progress
ExecuteAlone ==
  \E throwOnFailed \in BOOLEAN :
    /\ NextExecution \in Executions
    /\ \A e \in Executions : ~InProgress(e)
    /\ execute(NextExecution, throwOnFailed)

\* the request gets an ok response
FetchFulfils ==
  \E e \in Executions :
    /\ executions[e].at = "fetching"
    /\ ~SignalAborted(e)
    /\ fulfilled(e)

\* the request fails, or gets a response that is not ok
FetchRejects ==
  \E e \in Executions, name \in {"TypeError", "HTTP Error"} :
    /\ executions[e].at = "fetching"
    /\ ~SignalAborted(e)
    /\ caught(e, name)

\* the signal of the request is aborted: fetch rejects
FetchAborted ==
  \E e \in Executions :
    /\ executions[e].at = "fetching"
    /\ SignalAborted(e)
    /\ caught(e, "AbortError")

\* the timer of the retry wait runs
RetryDelayElapses ==
  \E e \in Executions :
    /\ executions[e].at = "waiting"
    /\ executions[e].wakeAt <= clock
    /\ retry(e)

\* the caller calls abort()
Abort == abort(timers)

\* the timeout timer of an execution runs: abort()
TimeoutFires ==
  \E e \in Executions :
    /\ timers[e] # NoTimer
    /\ timers[e] <= clock
    /\ abort([timers EXCEPT ![e] = NoTimer])

\* time passes; a timer runs when it is due
ClockTick ==
  /\ clock < MaxClock
  /\ \A e \in Executions :
       /\ timers[e] = NoTimer \/ timers[e] > clock
       /\ executions[e].at = "waiting" => executions[e].wakeAt > clock
  /\ clock' = clock + 1
  /\ UNCHANGED << fetchOptions, abortControllerRef, timeoutRef, timers, executions, data,
                  error, isLoading, isFinished, aborted, notFetch >>

NextFetch ==
  ExecuteAlone \/ FetchFulfils \/ FetchRejects \/ FetchAborted \/ RetryDelayElapses
    \/ Abort \/ TimeoutFires \/ ClockTick

\* calls of execute() made one after the other, with abort() at any time
SpecFetch == InitFetch /\ [][NextFetch]_vars

\* execute() is called while an earlier call is in progress
ExecuteAgain ==
  \E throwOnFailed \in BOOLEAN :
    /\ NextExecution \in Executions
    /\ \E e \in Executions : InProgress(e)
    /\ execute(NextExecution, throwOnFailed)

NextOverlap == NextFetch \/ ExecuteAgain

\* calls of execute() made at any time, also while an earlier one is in progress
SpecOverlap == InitFetch /\ [][NextOverlap]_vars

(* ------------- useInterval (animation/useInterval.ts 29-100) ---------- *)
(* One hook instance.  A render and the effects it schedules are one step; *)
(* the handlers are those of the latest render.                            *)

\* the refs and the host's timers, as a handler finds them
Refs ==
  [intervalRef |-> intervalRef, timers |-> intervalTimers, isActiveRef |-> isActiveRef,
   runs |-> callbackRuns]

\* a handler has run and left r
Store(r) ==
  /\ intervalRef' = r.intervalRef
  /\ intervalTimers' = r.timers
  /\ isActiveRef' = r.isActiveRef
  /\ callbackRuns' = r.runs

\* setInterval(...): a handle no scheduled timer has
NewHandle(r) == CHOOSE id \in 1..(Cardinality(r.timers) + 1) : id \notin r.timers

\* clear()
clear(r) ==
  [r EXCEPT !.timers = IF r.intervalRef # 0 THEN @ \ {r.intervalRef} ELSE @,
            !.intervalRef = 0,
            !.isActiveRef = FALSE]

\* start(), of a render with interval iv
start(r, iv) ==
  IF iv = Null \/ iv <= 0
    THEN r
    ELSE LET c == clear(r)
             d == IF immediateCallback THEN [c EXCEPT !.runs = @ + 1] ELSE c
         IN [d EXCEPT !.intervalRef = NewHandle(d),
                      !.timers = @ \cup {NewHandle(d)},
                      !.isActiveRef = TRUE]

\* pause()
pause(r) == clear(r)

\* resume(), of a render with interval iv
resume(r, iv) == IF iv # Null THEN start(r, iv) ELSE r

\* restart(), of a render with interval iv
restart(r, iv) == start(r, iv)

\* the body of the first effect, of a render with interval iv
effect(r, iv) == IF immediate /\ iv # Null THEN start(r, iv) ELSE r

\* the handlers invoke the callback at most once, and it is followed MaxCallbacks times
Followed == callbackRuns < MaxCallbacks

\* the options and the interval of the first render
InitInterval ==
  /\ NoScheduler
  /\ NoRegistry
  /\ NoFetch
  /\ NoCounter
  /\ NoStorage
  /\ interval \in Intervals
  /\ immediate \in BOOLEAN
  /\ immediateCallback \in BOOLEAN
  /\ FreshInterval

\* the first render, then the effects
MountHook ==
  /\ hook = "new"
  /\ hook' = "mounted"
  /\ isActive' = isActiveRef
  /\ Store(effect(Refs, interval))
  /\ UNCHANGED << interval, immediate, immediateCallback, stoppedBy, notInterval >>

\* a later render with interval iv; when the interval has changed, the cleanup of the
\* first effect and then its body
Rerender(iv) ==
  /\ hook = "mounted"
  /\ Followed
  /\ interval' = iv
  /\ isActive' = isActiveRef
  /\ Store(IF iv # interval THEN effect(clear(Refs), iv) ELSE Refs)
  /\ stoppedBy' = IF iv # interval /\ iv = Null THEN "null" ELSE stoppedBy
  /\ UNCHANGED << immediate, immediateCallback, hook, notInterval >>

\* the caller calls pause()
Pause ==
  /\ hook # "new"
  /\ Store(pause(Refs))
  /\ stoppedBy' = "pause"
  /\ UNCHANGED << interval, immediate, immediateCallback, hook, isActive, notInterval >>

\* the caller calls resume()
Resume ==
  /\ hook # "new"
  /\ Followed
  /\ Store(resume(Refs, interval))
  /\ stoppedBy' = IF hook = "mounted" THEN "" ELSE stoppedBy
  /\ UNCHANGED << interval, immediate, immediateCallback, hook, isActive, notInterval >>

\* the caller calls restart()
Restart ==
  /\ hook # "new"
  /\ Followed
  /\ Store(restart(Refs, interval))
  /\ stoppedBy' = IF hook = "mounted" THEN "" ELSE stoppedBy
  /\ UNCHANGED << interval, immediate, immediateCallback, hook, isActive, notInterval >>

\* an interval timer runs: callbackRef.current()
IntervalFires ==
  /\ intervalTimers # {}
  /\ Followed
  /\ callbackRuns' = callbackRuns + 1
  /\ UNCHANGED << interval, immediate, immediateCallback, hook, intervalRef, intervalTimers,
                  isActiveRef, isActive, stoppedBy, notInterval >>

\* the component unmounts: the cleanups of both effects
UnmountHook ==
  /\ hook = "mounted"
  /\ hook' = "unmounted"
  /\ Store(clear(clear(Refs)))
  /\ stoppedBy' = "unmount"
  /\ UNCHANGED << interval, immediate, immediateCallback, isActive, notInterval >>

NextInterval ==
  MountHook \/ (\E iv \in Intervals : Rerender(iv)) \/ Pause \/ Resume \/ Restart
    \/ IntervalFires \/ UnmountHook

SpecInterval == InitInterval /\ [][NextInterval]_vars

(* --------------- useCounter (state/useCounter.ts 36-92) --------------- *)
(* One hook instance with fixed arguments.  A number is an integer or NaN; *)
(* setCount's updater is applied at once.                                  *)

\* a < b and a > b of two numbers: false when either is NaN
Lt(a, b) == a # NaN /\ b # NaN /\ a < b

Gt(a, b) == a # NaN /\ b # NaN /\ a > b

\* a + b and a - b of two numbers
Plus(a, b) == IF a = NaN \/ b = NaN THEN NaN ELSE a + b

Minus(a, b) == IF a = NaN \/ b = NaN THEN NaN ELSE a - b

\* getValidValue(value)
getValidValue(value) ==
  LET validValue == IF min # Absent /\ Lt(value, min) THEN min ELSE value
  IN IF max # Absent /\ Gt(validValue, max) THEN max ELSE validValue

\* the updaters set() is called with: prev => -prev, prev => prev
Updaters == {"negate", "same"}

Apply(f, prev) == IF f = "negate" THEN Minus(0, prev) ELSE prev

\* the numbers that are followed
Followable(v) == v = NaN \/ (v >= -MaxCount /\ v <= MaxCount)

\* set(value), value a number: setCount(prev => getValidValue(value))
set(value) ==
  /\ Followable(getValidValue(value))
  /\ count' = getValidValue(value)
  /\ UNCHANGED << min, max, step, initialCount, notCounter >>

\* set(value), value an updater
setWith(f) == set(Apply(f, count))

\* inc(delta)
inc(delta) == set(Plus(count, delta))

\* dec(delta)
dec(delta) == set(Minus(count, delta))

\* reset()
reset == set(initialCount)

\* setMin()
setMin == min # Absent /\ set(min)

\* setMax()
setMax == max # Absent /\ set(max)

\* useCounter(initialValue, {min, max, step}) with min <= max when both are given
InitCounter ==
  /\ NoScheduler
  /\ NoRegistry
  /\ NoFetch
  /\ NoInterval
  /\ NoStorage
  /\ min \in Bounds \cup {Absent}
  /\ max \in Bounds \cup {Absent}
  /\ (min # Absent /\ max # Absent) => min <= max
  /\ step = 1
  /\ initialCount \in Numbers
  /\ count = getValidValue(initialCount)

Inc == \E delta \in Numbers \cup {step} : inc(delta)

Dec == \E delta \in Numbers \cup {step} : dec(delta)

SetValue == \E value \in Numbers : set(value)

SetUpdater == \E f \in Updaters : setWith(f)

Reset == reset

SetMin == setMin

SetMax == setMax

NextCounter == Inc \/ Dec \/ SetValue \/ SetUpdater \/ Reset \/ SetMin \/ SetMax

SpecCounter == InitCounter /\ [][NextCounter]_vars

(* --------------------------- useLocalStorage --------------------------- *)
(* One hook instance with the default serializer (DEFAULT_SERIALIZERS.any) *)
(* and numbers as values.  `storedValue` is the state of the last render,  *)
(* which the setValue of that render closes over; `queued` is what         *)
(* setStoredValue was last called with since that render.  A render        *)
(* commits it and runs the effect that compares the state with the item.   *)
(* `latest` and `updates` are history: the value the updates made so far   *)
(* give when each is applied to the result of the one before, and the      *)
(* number of setValue(prev => f(prev)) calls since the last render.  Between *)
(* two renders the caller makes either such calls only, or setValue(v) and *)
(* removeValue() calls only.                                               *)

Digit == << "0", "1", "2", "3", "4", "5", "6", "7", "8", "9" >>

\* serializer.write of a number: JSON.stringify(v)
write(v) ==
  IF v < 10 THEN Digit[v + 1] ELSE Digit[(v \div 10) + 1] \o Digit[(v % 10) + 1]

\* serializer.read of an item that serializer.write made: JSON.parse(v)
read(item) == CHOOSE v \in 0..99 : write(v) = item

\* getStoredValue()
getStoredValue(item) == IF item = NoItem THEN defaultValue ELSE read(item)

\* the updater the caller passes: prev => prev + 1
addOne(prev) == prev + 1

\* setValue(value) with valueToStore the value, or the updater's result
setValue(valueToStore) ==
  /\ queued' = valueToStore
  /\ localStorage' = write(valueToStore)

\* removeValue()
removeValue ==
  /\ localStorage' = NoItem
  /\ queued' = defaultValue

\* a render commits the state, and the effect that follows compares it with the item
render ==
  /\ storedValue' = queued
  /\ queued' = IF getStoredValue(localStorage) # queued THEN getStoredValue(localStorage)
                                                        ELSE NoUpdate
  /\ UNCHANGED localStorage

\* the hook after its first render and effects, with any item or none under the key
InitStorage ==
  /\ NoScheduler
  /\ NoRegistry
  /\ NoFetch
  /\ NoInterval
  /\ NoCounter
  /\ defaultValue \in 0..MaxStored
  /\ localStorage \in {NoItem} \cup {write(v) : v \in 0..MaxStored}
  /\ storedValue = getStoredValue(localStorage)
  /\ queued = NoUpdate
  /\ latest = storedValue
  /\ updates = 0

\* setValue(prev => prev + 1), the first update since the render or after another such
\* call
SetValueWith ==
  /\ updates < MaxUpdates
  /\ queued = NoUpdate \/ updates > 0
  /\ latest < MaxStored
  /\ setValue(addOne(storedValue))
  /\ latest' = addOne(latest)
  /\ updates' = updates + 1
  /\ UNCHANGED << defaultValue, storedValue, notStorage >>

\* setValue(v), not after a setValue(prev => prev + 1) that is not yet rendered
SetValueTo ==
  \E v \in 0..MaxStored :
    /\ updates = 0
    /\ setValue(v)
    /\ latest' = v
    /\ UNCHANGED << defaultValue, storedValue, updates, notStorage >>

\* removeValue(), not after a setValue(prev => prev + 1) that is not yet rendered
RemoveValue ==
  /\ updates = 0
  /\ removeValue
  /\ latest' = defaultValue
  /\ UNCHANGED << defaultValue, storedValue, updates, notStorage >>

RenderStorage ==
  /\ queued # NoUpdate
  /\ render
  /\ updates' = 0
  /\ UNCHANGED << defaultValue, latest, notStorage >>

NextStorage == SetValueWith \/ SetValueTo \/ RemoveValue \/ RenderStorage

SpecStorage == InitStorage /\ [][NextStorage]_vars

(* ============================== claims ================================ *)
\* the invocations made in this step
NewEntries == { i \in 1..Len(log') : i > Len(log) }

\* C1: once cancel() has returned (directly or through the unmount cleanup), every
\* later invocation of the wrapped function gets the arguments of a run() call
\* made after that cancel; with no such call there is no invocation at all.
CancelDiscardsEarlierCalls ==
  [][\A i \in NewEntries :
        /\ log'[i].arg > cancelledUpTo'
        /\ log'[i].arg <= Len(calls')]_vars

\* a call was cancelled without ever being invoked and a later call was invoked
CancelledThenInvokedLater ==
  /\ cancelledUpTo >= 1
  /\ \A i \in 1..Len(log) : log[i].arg # cancelledUpTo
  /\ \E i \in 1..Len(log) : log[i].arg > cancelledUpTo

\* C2 (as claimed): at most one timer callback of the instance is scheduled
AtMostOneTimerScheduled == Scheduled <= 1
\* calls i..j (i <= j) belong to one burst: each came less than delay after the one before
SameBurst(i, j) == \A k \in i..(j - 1) : calls[k + 1] - calls[k] < delay

\* the last call made so far of the burst of call i
BurstEnd(i) == CHOOSE j \in i..Len(calls) :
                 /\ SameBurst(i, j)
                 /\ \A k \in i..Len(calls) : SameBurst(i, k) => k <= j

\* no two invocations got arguments of the same burst
OncePerBurst ==
  \A m, n \in 1..Len(log) :
    m < n => LET a == log[m].arg
                 b == log[n].arg
             IN ~SameBurst(Min(a, b), IF a <= b THEN b ELSE a)

\* no invocation was made before delay ms had passed since the last call of its burst
NotBeforeBurstEnd ==
  \A m \in 1..Len(log) : log[m].at >= calls[BurstEnd(log[m].arg)] + delay

\* C3 (as claimed): debounce without maxWait, any leading/trailing: at most one
\* execution per burst, and not before delay ms after the burst's last call
DebounceOncePerBurstAtEnd ==
  (kind = "debounce" /\ maxWait = NoMaxWait) => (OncePerBurst /\ NotBeforeBurstEnd)

\* C3 (amended): the same for leading = false
DebounceTrailingOncePerBurstAtEnd ==
  (kind = "debounce" /\ maxWait = NoMaxWait /\ ~leading) =>
     (OncePerBurst /\ NotBeforeBurstEnd)

\* a burst of three calls was executed, with the last call's arguments
BurstOfThreeExecuted ==
  /\ kind = "debounce" /\ maxWait = NoMaxWait /\ ~leading
  /\ Len(calls) = 3 /\ SameBurst(1, 3) /\ calls[3] > calls[1]
  /\ \E m \in 1..Len(log) : log[m].arg = 3

\* C4: throttle: consecutive executions of the wrapped function are at least delay
\* ms apart, whenever run() is called
ThrottleSpacing ==
  kind = "throttle" =>
    \A m \in 1..(Len(log) - 1) : log[m + 1].at - log[m].at >= delay

\* a leading execution, a trailing one and a second leading one
ThrottleThreeExecutions ==
  /\ kind = "throttle"
  /\ Len(log) = 3
  /\ log[1].by = "run" /\ log[2].by = "timer" /\ log[3].by = "run"
\* call k's arguments have been passed to the wrapped function
Executed(k) == \E m \in 1..Len(log) : log[m].arg = k

\* C5: throttle with trailing = true: the arguments of a run() call that no other
\* run() call follows are eventually passed to the wrapped function
ThrottleHonoursLastCall ==
  \A k \in 1..MaxBurst :
    (kind = "throttle" /\ trailing /\ Len(calls) = k) ~> (Len(calls) > k \/ Executed(k))

\* the latest call came in the middle of the window an execution had opened and
\* was executed by the trailing edge
MidWindowCallHonoured ==
  /\ kind = "throttle" /\ trailing
  /\ Len(log) >= 2 /\ Len(calls) >= 2
  /\ log[Len(log)].arg = Len(calls) /\ log[Len(log)].by = "timer"
  /\ calls[Len(calls)] > log[Len(log) - 1].at
  /\ calls[Len(calls)] < log[Len(log) - 1].at + delay

\* call i opens a burst
BurstStart(i) == i = 1 \/ calls[i] - calls[i - 1] >= delay

\* C6 (as claimed, read for trailing = true): debounce with maxWait = N: a burst
\* that is still going on N ms after its first call (calls keep coming less than
\* delay apart) has been executed within those N ms
MaxWaitBoundsBurst ==
  (kind = "debounce" /\ maxWait # NoMaxWait /\ trailing) =>
    \A i \in 1..Len(calls) :
      (/\ BurstStart(i)
       /\ calls[i] + maxWait < calls[BurstEnd(i)] + delay
       /\ now > calls[i] + maxWait)
      => \E m \in 1..Len(log) : log[m].at >= calls[i] /\ log[m].at <= calls[i] + maxWait

\* C7: the debounce scenario: nothing is executed during t = 0..159, and at t = 160
\* the wrapped function is executed once, with the arguments of the third call
DebounceScenario ==
  /\ Len(log) <= 1
  /\ \A m \in 1..Len(log) : log[m].arg = 3 /\ log[m].at = Epoch + 160
  /\ now > Epoch + 160 => Len(log) = 1

DebounceScenarioDone ==
  /\ script = 3
  /\ now = Epoch + ScenarioEnd
  /\ log = << [arg |-> 3, at |-> Epoch + 160, by |-> "timer"] >>

\* what the throttle scenario is claimed to do, and what it does
ThrottleClaimed ==
  << [arg |-> 1, at |-> Epoch, by |-> "run"],
     [arg |-> 3, at |-> Epoch + 100, by |-> "timer"],
     [arg |-> 4, at |-> Epoch + 110, by |-> "run"] >>

ThrottleActual ==
  << [arg |-> 1, at |-> Epoch, by |-> "run"],
     [arg |-> 3, at |-> Epoch + 100, by |-> "timer"],
     [arg |-> 4, at |-> Epoch + 210, by |-> "timer"] >>

\* the executions so far are those of `plan` that are due by now, and no others
Follows(plan) ==
  /\ Len(log) <= Len(plan)
  /\ \A m \in 1..Len(log) : log[m] = plan[m]
  /\ \A m \in 1..Len(plan) : now > plan[m].at => Len(log) >= m

\* C8 (as claimed): a at t = 0 (leading), c at t = 100 (trailing), d at t = 110,
\* executed immediately by the fourth call
ThrottleScenarioAsClaimed == Follows(ThrottleClaimed)

\* C8 (amended): a at t = 0 (leading), c at t = 100 (trailing); the call at t = 110
\* executes nothing, it starts a timer, and d is executed at t = 210 (trailing)
ThrottleScenario == Follows(ThrottleActual)

ThrottleScenarioDone ==
  /\ script = 4
  /\ now = Epoch + ScenarioEnd
  /\ log = ThrottleActual

\* C9 (as claimed): once the owner has unmounted no timer callback is scheduled,
\* pendingArgs, lastCallTime and lastInvokeTime are cleared, and the wrapped
\* function is not executed any more
UnmountReleasesEverything ==
  /\ [](~mounted => /\ Scheduled = 0
                    /\ argsRef = NoArgs
                    /\ lastCallTimeRef = Unset
                    /\ lastInvokeTimeRef = Unset)
  /\ [][~mounted => log' = log]_vars

\* C10: flush() with a timer pending and a trailing execution owed executes the
\* wrapped function in that call, once, with the latest run() call's arguments, and
\* returns its result; no other execution ever gets the arguments flush() executed
FlushExecutesPending ==
  /\ [][(Flush /\ timerRef # NoTimer /\ trailing /\ argsRef # NoArgs) =>
          /\ log' = Append(log, [arg |-> Len(calls), at |-> now, by |-> "flush"])
          /\ ret' = fnRef(Len(calls))]_vars
  /\ [](\A m, n \in 1..Len(log) :
          (log[m].by = "flush" /\ m # n) => log[m].arg # log[n].arg)

\* flush() executed a call, its timer has run since, and nothing is scheduled
FlushedAndTimerRan ==
  /\ \E m \in 1..Len(log) : log[m].by = "flush" /\ log[m].at < now
  /\ Scheduled = 0
  /\ Len(calls) = 1

\* C11: flush() called while no timer is pending (no timer is scheduled, or
\* timerRef.current is null) returns resultRef.current, executes nothing, schedules
\* nothing and leaves argsRef, lastCallTimeRef, lastInvokeTimeRef, resultRef alone
IdleFlushIsNoOp ==
  [][(Flush /\ (Scheduled = 0 \/ timerRef = NoTimer)) =>
       /\ ret' = resultRef
       /\ UNCHANGED << timerRef, strays, lastCallTimeRef, lastInvokeTimeRef,
                       argsRef, resultRef, log >>]_vars

\* the only run() call returned undefined, its timer executed it, and a flush()
\* after that returned the timer's result; nothing is scheduled
IdleFlushReturnedLastResult ==
  /\ Len(calls) = 1
  /\ Len(log) = 1 /\ log[1].arg = 1 /\ log[1].by = "timer"
  /\ ret = fnRef(1)
  /\ Scheduled = 0

\* C12 (as claimed): lastInvokeTimeRef never decreases, whatever is called
LastInvokeTimeNeverDecreases ==
  [][lastInvokeTimeRef' >= lastInvokeTimeRef]_vars

\* C12 (amended): run(), flush() and the timer callbacks never decrease
\* lastInvokeTimeRef; cancel() and the unmount cleanup set it back to 0
LastInvokeTimeDecreasesOnlyByCancel ==
  [][IF Cancel \/ Unmount
       THEN lastInvokeTimeRef' = Unset
       ELSE lastInvokeTimeRef' >= lastInvokeTimeRef]_vars

\* the first call was executed, cancel() put lastInvokeTimeRef back to 0, and the
\* second call, made after the cancel, stamped it again
InvokeTimeStampedAfterCancel ==
  /\ cancelledUpTo = 1 /\ Len(calls) = 2
  /\ Len(log) >= 1 /\ log[1].arg = 1
  /\ lastInvokeTimeRef >= calls[2]
  /\ calls[2] > log[1].at

\* a run() call has been made since the last execution and since the last cancel
CallSinceInvokeOrCancel ==
  /\ Len(calls) > cancelledUpTo
  /\ \A m \in 1..Len(log) : log[m].arg < Len(calls)

\* C13 (as claimed): while the timer the hook holds is scheduled and a run() call has been made
\* since the last execution or cancel, argsRef holds that latest call's arguments
PendingArgsAreLatestCall ==
  (timerRef >= 0 /\ CallSinceInvokeOrCancel) => argsRef = Len(calls)

\* C14 (as claimed): no execution of the wrapped function starts while another
\* execution of it by the same hook has not returned, also when the wrapped
\* function calls run() or flush()
OneInvocationInFlight == Len(inFlight) <= 1

\* what the latest execution of the wrapped function returned, undefined if none
LastResult(l) == IF l = << >> THEN Undefined ELSE fnRef(l[Len(l)].arg)

\* C15: every run() call returns what the latest execution of the wrapped function
\* returned, its own execution included; undefined when there has been none
RunReturnsLastResult ==
  [][calls' # calls => ret' = LastResult(log')]_vars

\* the first call was executed by its timer; the second call, made after that,
\* executed nothing and returned the result of the first
SuppressedCallReturnedStale ==
  /\ Len(calls) = 2
  /\ Len(log) = 1 /\ log[1].arg = 1 /\ log[1].by = "timer"
  /\ argsRef = 2
  /\ ret = fnRef(1)

\* C16: without destroyGlobalState, a mounted component that has no setLocalValue
\* waiting shows the value the Map holds for its key, which getGlobalState returns
MountedComponentsShareValue ==
  \A c \in Components :
    (components[c].at = "mounted" /\ components[c].pending = NoUpdate) =>
       /\ globalStates[components[c].key] # 0
       /\ components[c].localValue = getGlobalState(components[c].key)

\* two components are mounted on a key whose value was assigned while they were:
\* one has rendered again and shows the new value, the other is about to
OneComponentShowsAssignedValue ==
  /\ \A c \in {1, 2} : components[c].at = "mounted" /\ components[c].key = "k1"
  /\ getGlobalState("k1") = 1
  /\ components[1].localValue = 1 /\ components[1].pending = NoUpdate
  /\ components[2].localValue = 0 /\ components[2].pending = 1

\* what belongs to key k: its Map entry, its GlobalState objects with their
\* listeners, and the components that use its hook
OfKey(k) ==
  << globalStates[k], objects[k],
     [c \in Components |-> IF components[c].key = k THEN components[c] ELSE Unmounted] >>

\* the step is a hook-setter call, setGlobalState, resetGlobalState or
\* destroyGlobalState on key k
OperationOn(k) ==
  \/ \E c \in Components, x \in Values \cup {Increment} :
        components[c].key = k /\ setGlobalValue(c, x)
  \/ \E x \in Values \cup {Increment} : setGlobalState(k, x)
  \/ \E v \in Values : resetGlobalState(k, v)
  \/ destroyGlobalState(k)

\* C17: an operation on one key changes nothing that belongs to another key: not
\* its value, its listeners, the local value of its components or their updates
KeysAreIndependent ==
  [][\A k1 \in Keys :
       OperationOn(k1) => \A k2 \in Keys \ {k1} : OfKey(k2)' = OfKey(k2)]_vars

\* both keys have a mounted component; the value of k1 has been assigned and its
\* component is about to show it, k1 has then been destroyed; the component of k2
\* shows the value of k2 and has no update waiting
OneKeyAssignedOtherUntouched ==
  /\ components[1].at = "mounted" /\ components[1].key = "k1"
  /\ components[2].at = "mounted" /\ components[2].key = "k2"
  /\ components[1].localValue = 0 /\ components[1].pending = 1
  /\ globalStates["k1"] = 0
  /\ components[2].localValue = 0 /\ getGlobalState("k2") = 0
  /\ components[2].pending = NoUpdate


\* C18: after abort() is called while an execute() is in progress, that execute()
\* calls fetch no more (also with retries left), and once it has settled, and until
\* execute() is called again, the hook shows aborted = true and isLoading = false.
AbortEndsTheRequest ==
  \A e \in Executions :
    /\ \A i \in 1..Len(executions[e].attempts) : ~executions[e].attempts[i].afterAbort
    /\ (executions[e].abortCalled /\ executions[e].at = "settled" /\ NextExecution = e + 1)
         => (aborted /\ ~isLoading)


\* C19: with retries = R and a fixed retryDelay, one execute() calls fetch at most
\* R + 1 times; an attempt that succeeds is its last one and execute() returns; between
\* the end of an attempt and the start of the next at least retryDelay passes; and when
\* it has settled without a success, R + 1 attempts were made, its promise is rejected
\* if throwOnFailed and resolved otherwise, and until execute() is called again error is
\* the last attempt's error, isLoading = false and isFinished = true.
RetriesAsConfigured ==
  \A e \in Executions :
    LET x == executions[e]
        a == x.attempts
        n == Len(a)
    IN /\ n <= retries + 1
       /\ \A i \in 1..n :
            a[i].result = "ok" => (i = n /\ x.at = "settled" /\ x.outcome = "returned")
       /\ \A i \in 1..(n - 1) :
            /\ a[i].result \notin {"ok", "pending"}
            /\ a[i + 1].at - a[i].ended >= RetryDelay
       /\ (x.at = "settled" /\ a[n].result # "ok") =>
            /\ n = retries + 1
            /\ x.outcome = (IF x.throwOnFailed THEN "rejected" ELSE "resolved")
            /\ NextExecution = e + 1 =>
                 /\ error = ErrorOf(e, n, a[n].result)
                 /\ ~isLoading
                 /\ isFinished

\* an execute(true) with retries has made all its attempts, the first ended with an
\* HTTP error and the last with a network error, and has rejected
AllAttemptsFailed ==
  \E e \in Executions :
    /\ retries >= 1
    /\ executions[e].at = "settled"
    /\ executions[e].outcome = "rejected"
    /\ Len(executions[e].attempts) = retries + 1
    /\ executions[e].attempts[1].result = "HTTP Error"
    /\ executions[e].attempts[retries + 1].result = "TypeError"
    /\ error = ErrorOf(e, retries + 1, "TypeError")


\* C20: the isActive a mounted component got from useInterval is true exactly when an
\* interval timer of the hook is scheduled.
IsActiveTellsWhetherRunning == hook = "mounted" => (isActive <=> intervalTimers # {})


\* C21: at most one interval timer of the hook is scheduled at any time; and from a
\* pause(), from the interval becoming null and from the unmount on, until resume() or
\* restart() is called on the mounted hook, no interval timer is scheduled and the
\* callback is not invoked.
StoppedIntervalStaysStopped ==
  /\ [](Cardinality(intervalTimers) <= 1)
  /\ [](stoppedBy # "" => intervalTimers = {})
  /\ [][(stoppedBy # "" /\ stoppedBy' # "") => callbackRuns' = callbackRuns]_vars


\* C22: count is within the bounds that are given, min <= count and count <= max, after
\* initialisation and after every inc, dec, set, reset, setMin and setMax.
CountWithinBounds ==
  /\ min # Absent => (count # NaN /\ min <= count)
  /\ max # Absent => (count # NaN /\ count <= max)


\* C23: a run() of useDebounceFn made while no timer is scheduled and with no call
\* recorded, or at least delay ms after the previous call, or with the clock reading
\* earlier than the previous call, starts a timer for delay, and it executes the
\* wrapped function, once and with its own arguments, exactly when leading is true.
FreshWindowIsLeadingEdge ==
  [][(/\ Run
      /\ Scheduled = 0
      /\ \/ lastCallTimeRef = Unset
         \/ now - lastCallTimeRef >= delay
         \/ now < lastCallTimeRef)
       => /\ timerRef' = delay
          /\ strays' = << >>
          /\ log' = IF leading
                      THEN Append(log, [arg |-> Len(calls'), at |-> now, by |-> "run"])
                      ELSE log]_vars

\* a second run() was made with the clock reading earlier than at the first, no timer
\* scheduled, and was executed at once
LeadingEdgeAfterClockBack ==
  /\ leading
  /\ Len(calls) = 2
  /\ calls[2] < calls[1]
  /\ \E i \in 1..Len(log) : log[i].arg = 2 /\ log[i].by = "run" /\ log[i].at = calls[2]
  /\ now = calls[2]
  /\ timerRef = Delay
  /\ strays = << >>


\* C24: when the wrapped function throws in an execution made inside run(), run() ends
\* with that exception, resultRef keeps its value, the arguments are no longer pending
\* and a timer is scheduled; arguments the function threw for are never executed again;
\* a later run() that executes the function and does not throw returns and stores its
\* result; and after an exception the scheduler comes to rest, no timer scheduled and no
\* arguments pending.
ThrowInRunIsContained ==
  /\ [][(RunOnly /\ Len(log') > Len(log))
          => IF Throws(Len(calls'))
               THEN /\ ret' = Thrown
                    /\ resultRef' = resultRef
                    /\ argsRef' = NoArgs
                    /\ timerRef' >= 0
               ELSE /\ ret' = fnRef(Len(calls'))
                    /\ resultRef' = ret']_vars
  /\ [](\A i, j \in 1..Len(log) :
          (i # j /\ Throws(log[i].arg)) => log[i].arg # log[j].arg)
  /\ (ret = Thrown) ~> (Scheduled = 0 /\ argsRef = NoArgs)

\* the first run() threw on the leading edge, the second was executed by a later run()
\* and its result stored, and the scheduler is at rest
ThrewThenServed ==
  /\ Len(log) = 2
  /\ log[1].arg = 1 /\ log[1].by = "run"
  /\ log[2].arg = 2 /\ log[2].by = "run"
  /\ ret = fnRef(2)
  /\ resultRef = fnRef(2)
  /\ Scheduled = 0
  /\ argsRef = NoArgs


\* C25: every execution of the wrapped function gets the arguments of a run() call
\* made before it, never absent arguments, and no run() call's arguments are passed
\* to the wrapped function twice.
ArgumentsOfOneCallAtMostOnce ==
  /\ \A i \in 1..Len(log) :
       /\ log[i].arg # NoArgs
       /\ log[i].arg \in 1..Len(calls)
       /\ calls[log[i].arg] <= log[i].at
  /\ \A i, j \in 1..Len(log) : i # j => log[i].arg # log[j].arg

\* the first call was executed by run() itself and the second by flush(), each once,
\* and nothing is pending
EachCallExecutedOnce ==
  /\ Len(calls) = 2
  /\ Len(log) = 2
  /\ log[1].arg = 1 /\ log[1].by = "run"
  /\ log[2].arg = 2 /\ log[2].by = "flush"
  /\ argsRef = NoArgs
  /\ Scheduled = 0


\* the executions that got arguments of the calls i..j
ExecutionsOf(i, j) == { m \in 1..Len(log) : log[m].arg \in i..j }

\* C26 (as claimed): debounce with leading and trailing and no maxWait, once the scheduler is at
\* rest: a burst of one call was executed once, at the call; a burst of more calls was
\* executed twice, with the first call's arguments at that call and with the last
\* call's arguments delay ms after the last call.
LeadingAndTrailingPerBurst ==
  (/\ kind = "debounce" /\ leading /\ trailing /\ maxWait = NoMaxWait
   /\ Scheduled = 0 /\ argsRef = NoArgs)
    => \A i \in 1..Len(calls) :
         BurstStart(i) =>
           LET j == BurstEnd(i)
               e == ExecutionsOf(i, j)
           IN /\ \E m \in e : log[m].arg = i /\ log[m].at = calls[i] /\ log[m].by = "run"
              /\ IF i = j
                   THEN Cardinality(e) = 1
                   ELSE /\ Cardinality(e) = 2
                        /\ \E m \in e : log[m].arg = j /\ log[m].at = calls[j] + delay


\* C26 (amended): the same when no call is made exactly delay ms after the call
\* before it, the moment the timer of that call is due.
LeadingAndTrailingPerSeparateBurst ==
  (\A k \in 2..Len(calls) : calls[k] - calls[k - 1] # delay)
    => LeadingAndTrailingPerBurst

\* a burst of two calls was executed twice and a later single call once, at the call
BurstOfTwoThenSingleCall ==
  /\ kind = "debounce" /\ leading /\ trailing /\ maxWait = NoMaxWait
  /\ Scheduled = 0 /\ argsRef = NoArgs
  /\ Len(calls) = 3
  /\ calls[2] - calls[1] < delay
  /\ calls[3] - calls[2] > delay
  /\ Len(log) = 3
  /\ log[1].arg = 1 /\ log[1].by = "run"
  /\ log[2].arg = 2 /\ log[2].by = "timer" /\ log[2].at = calls[2] + delay
  /\ log[3].arg = 3 /\ log[3].by = "run" /\ log[3].at = calls[3]


\* C27: a timer callback that does not take the trailing edge schedules the next timer
\* for more than 0 and at most delay ms; and once run() is called no more, the
\* scheduler comes to rest for good: no timer scheduled and no arguments pending.
RearmIsPositiveAndSchedulerRests ==
  /\ [][TimerFire => (timerRef' = NoTimer \/ (timerRef' >= 1 /\ timerRef' <= delay))]_vars
  /\ <>[](Scheduled = 0 /\ argsRef = NoArgs)

\* the timer of the first call ran while the second call's window was open and was
\* scheduled again for what is left of that window
RearmedForTheRest ==
  /\ kind = "debounce" /\ maxWait = NoMaxWait /\ ~leading
  /\ Len(calls) = 2
  /\ calls[2] > calls[1]
  /\ now = calls[1] + delay
  /\ timerRef = calls[2] - calls[1]
  /\ strays = << >>
  /\ argsRef = 2
  /\ log = << >>


\* C28: while a component that uses a key is mounted, a call of its setter finds the
\* key's entry (it does not throw), a render of it finds the entry (it is not unmounted
\* by a TypeError), and whenever it is mounted with no setLocalValue waiting and the
\* key has an entry, it shows the value of that entry.
DestroyIsSafeWhileMounted ==
  /\ [](\A c \in Components :
          components[c].at = "mounted" =>
            /\ globalStates[components[c].key] # 0
            /\ components[c].pending = NoUpdate =>
                 components[c].localValue = getGlobalState(components[c].key))
  /\ [][\A c \in Components : Render(c) => components'[c].at = "mounted"]_vars


\* the execute() call made last
LatestExecution == NextExecution - 1

\* C29: with calls of execute() that overlap, once every call has settled data (after
\* a success) or error (after a failure) is that of the call made last; isLoading is
\* true as long as the call made last is in progress; and a request that is being
\* fetched after abort() was called during its execute() has an aborted signal.
LatestExecutionWins ==
  /\ (LatestExecution >= 1 /\ \A e \in Executions : ~InProgress(e)) =>
       IF executions[LatestExecution].outcome = "returned"
         THEN data = LatestExecution /\ error = NoError
         ELSE error.of = LatestExecution
  /\ (LatestExecution >= 1 /\ InProgress(LatestExecution)) => isLoading
  /\ signal = "undefined" =>
       \A e \in Executions :
         (executions[e].abortCalled /\ executions[e].at = "fetching") =>
            executions[e].signalAborted


\* C30: when the component has rendered after the updates made so far, storedValue is
\* what the updates give when each is applied to the result of the one before (k calls
\* of setValue(prev => f(prev)) give f applied k times), and storedValue equals the
\* deserialized item stored under the key.
FunctionalUpdatesApplyToLatest ==
  queued = NoUpdate =>
    /\ storedValue = latest
    /\ storedValue = getStoredValue(localStorage)

====
